---- MODULE Spec2Model ----
(***************************************************************************)
(* Demand-propagation dependency graph of sparql-net (src/src/source.ts).  *)
(* The state is the heap of source nodes: each node's kind, its producer   *)
(* reference attributes, its consumer list and its observer list.          *)
(***************************************************************************)
EXTENDS Integers, Sequences, FiniteSets, TLC

\* ------------------------------------------------------------------ bounds
HeapSize == 4        \* node identities; SpecBuilder and SpecMerge construct that many nodes
MaxNodes == 3        \* nodes constructed in a run of Spec
MaxLedgerNodes == 2  \* nodes constructed in a run of SpecLedger
MaxArgs == 2         \* entries of a producer collection passed to a constructor
NumTokens == 1       \* external observer tokens the callers hold

Nodes == 1..HeapSize
Null == 0
Tokens == {100 + i : i \in 1..NumTokens}

\* ------------------------------------------------------------------ kinds
GraphKinds == {"graph", "graphSelector", "constructQuery"}
DatasetKinds == {"datasetBuilder", "datasetMerge", "sparqlEndpoint", "defaultSparqlEndpoint"}
RDFTermKinds == {"rdfTerm", "varFromSelect", "allTerms"}
TabularKinds == {"selectQuery", "defaultVarAllTerms"}

\* the classes that declare `implements XConsumer`
GraphConsumerKinds == {"datasetBuilder"}
DatasetConsumerKinds == {"graphSelector", "constructQuery", "datasetMerge", "varFromSelect",
                         "allTerms", "selectQuery", "defaultVarAllTerms"}
RDFTermConsumerKinds == {"varFromSelect"}
TabularConsumerKinds == {"selectQuery"}

VARIABLES
    kind,                 \* node -> its type tag, "none" before construction
    datasetSource,        \* node -> the dataset it was given (Null if it has none)
    defaultGraphSource,   \* datasetBuilder -> its default graph source
    namedGraphSources,    \* datasetBuilder -> the values of its Map, in insertion order
    inputDatasetSources,  \* datasetMerge -> its input array
    params,               \* varFromSelect -> the values of its Map, in insertion order
    bindingSources,       \* selectQuery -> the sources of its binding entries
    consumers,            \* node -> consumers array
    observers,            \* node -> observers array (Term and Tabular families)
    detachCalls,          \* history: node -> detache() calls made on it (0, 1, 2 = more)
    wanted,               \* history: node -> observer arguments added and not removed since
    lastObserved          \* history: <<n, r>> while the latest call was n.isObserved()
                          \* returning r, << >> after any other call

refs == <<datasetSource, defaultGraphSource, namedGraphSources, inputDatasetSources,
          params, bindingSources>>
pvars == <<kind, datasetSource, defaultGraphSource, namedGraphSources, inputDatasetSources,
           params, bindingSources, consumers, observers>>
hist == <<detachCalls, wanted, lastObserved>>
vars == <<kind, datasetSource, defaultGraphSource, namedGraphSources, inputDatasetSources,
          params, bindingSources, consumers, observers, detachCalls, wanted, lastObserved>>

\* ------------------------------------------------------------------ arrays
Range(s) == {s[i] : i \in 1..Len(s)}

includes(s, x) == x \in Range(s)

\* Array.prototype.indexOf: 0-based index of the first occurrence, -1 if absent
indexOf(s, x) ==
    IF x \in Range(s) THEN (CHOOSE i \in 1..Len(s) : s[i] = x /\ \A j \in 1..(i - 1) : s[j] # x) - 1
    ELSE -1

\* Array.prototype.splice(start, 1): a negative start counts from the end
splice(s, start) ==
    LET at == IF start < 0 THEN (IF Len(s) + start < 0 THEN 0 ELSE Len(s) + start) ELSE start
    IN  IF at >= Len(s) THEN s
        ELSE [i \in 1..(Len(s) - 1) |-> IF i <= at THEN s[i] ELSE s[i + 1]]

push(s, x) == Append(s, x)

Count(s, x) == Cardinality({i \in 1..Len(s) : s[i] = x})

SeqsUpTo(S, n) == UNION {[1..k -> S] : k \in 0..n}

\* ------------------------------------------------------------------ ledger
\* faulty variant: the membership test is left out
addConsumerAlways(list, consumer) == push(list, consumer)

\* this.consumers.includes(consumer) || this.consumers.push(consumer)
addConsumer(list, consumer) ==
    IF includes(list, consumer) THEN list ELSE push(list, consumer)

\* faulty variant: the (index > -1) guard is left out, so splice(-1, 1) drops the last entry
removeConsumerUnguarded(list, consumer) == splice(list, indexOf(list, consumer))

\* const index = indexOf(consumer); (index > -1) && splice(index, 1)
removeConsumer(list, consumer) ==
    LET index == indexOf(list, consumer)
    IN  IF index > -1 THEN splice(list, index) ELSE list

\* this.observers.includes(this) || this.observers.push(this): the argument is not used
addObserver(list, this, consumer) ==
    IF includes(list, this) THEN list ELSE push(list, this)

removeObserver(list, consumer) ==
    LET index == indexOf(list, consumer)
    IN  IF index > -1 THEN splice(list, index) ELSE list

hasObserver(n) == Len(observers[n]) > 0

\* ------------------------------------------------------------------ helpers
Created == {n \in Nodes : kind[n] # "none"}
OfKinds(K) == {n \in Nodes : kind[n] \in K}
HasObservers(n) == kind[n] \in RDFTermKinds \cup TabularKinds

\* object allocation: the next unused identity
Fresh(n) == n \in Nodes /\ kind[n] = "none" /\ \A m \in 1..(n - 1) : kind[m] # "none"

\* Object.values(x) of a Map: a Map has no own enumerable properties
ObjectValues(m) == << >>

\* Map.prototype.values(): the values in insertion order
MapValues(m) == m

\* faulty variant: only the first producer of the array is registered with
addConsumerToFirst(cons, sources, c) ==
    IF sources = << >> THEN cons
    ELSE [cons EXCEPT ![Head(sources)] = addConsumer(@, c)]

\* forEach(source => source.addConsumer(c)) over an array of producers
RECURSIVE addConsumerToEach(_, _, _)
addConsumerToEach(cons, sources, c) ==
    IF sources = << >> THEN cons
    ELSE addConsumerToEach([cons EXCEPT ![Head(sources)] = addConsumer(@, c)], Tail(sources), c)

\* forEach(source => source.removeConsumer(c)) over an array of producers
RECURSIVE removeConsumerFromEach(_, _, _)
removeConsumerFromEach(cons, sources, c) ==
    IF sources = << >> THEN cons
    ELSE removeConsumerFromEach([cons EXCEPT ![Head(sources)] = removeConsumer(@, c)],
                                Tail(sources), c)

\* ------------------------------------------------------------------ isObserved
\* Component.isObserved(): "true", "false", or "diverges" when the recursion
\* re-enters a node that is still on the call stack (it then never returns).
RECURSIVE isObservedFrom(_, _), someObserved(_, _, _)
isObservedFrom(n, stack) ==
    IF n \in stack THEN "diverges"
    ELSE IF HasObservers(n) /\ hasObserver(n) THEN "true"
    ELSE someObserved(consumers[n], 1, stack \cup {n})

\* faulty variant: only the first consumer is asked
someObservedFirstOnly(list, i, stack) ==
    IF i > Len(list) THEN "false" ELSE isObservedFrom(list[i], stack)

\* faulty variant: the callback asks the node itself again, c => this.isObserved(),
\* which re-enters the node that is on the call stack
someObservedOfThis(list, i, stack) ==
    IF i > Len(list) THEN "false" ELSE "diverges"

\* faulty variant: every (not only some) consumer has to be observed
RECURSIVE everyObserved(_, _, _)
everyObserved(list, i, stack) ==
    IF i > Len(list) THEN (IF Len(list) = 0 THEN "false" ELSE "true")
    ELSE LET r == isObservedFrom(list[i], stack)
         IN  IF r = "true" THEN everyObserved(list, i + 1, stack) ELSE r

\* Array.prototype.some(c => c.isObserved()): in order, stops at the first true
someObserved(list, i, stack) ==
    IF i > Len(list) THEN "false"
    ELSE LET r == isObservedFrom(list[i], stack)
         IN  IF r = "false" THEN someObserved(list, i + 1, stack) ELSE r

isObserved(n) == isObservedFrom(n, {})

\* ------------------------------------------------------------------ Init
Init ==
    /\ kind = [n \in Nodes |-> "none"]
    /\ datasetSource = [n \in Nodes |-> Null]
    /\ defaultGraphSource = [n \in Nodes |-> Null]
    /\ namedGraphSources = [n \in Nodes |-> << >>]
    /\ inputDatasetSources = [n \in Nodes |-> << >>]
    /\ params = [n \in Nodes |-> << >>]
    /\ bindingSources = [n \in Nodes |-> << >>]
    /\ consumers = [n \in Nodes |-> << >>]
    /\ observers = [n \in Nodes |-> << >>]
    /\ detachCalls = [n \in Nodes |-> 0]
    /\ wanted = [n \in Nodes |-> {}]
    /\ lastObserved = << >>

\* ------------------------------------------------------------------ constructors
\* new GraphSource(type) / new X(...) for the leaves: no producer is referenced
NewLeaf(n, k) ==
    /\ Fresh(n)
    /\ kind' = [kind EXCEPT ![n] = k]
    /\ UNCHANGED <<refs, consumers, observers>>

NewGraphSource == \E n \in Nodes : NewLeaf(n, "graph")
NewSparqlEndpoint == \E n \in Nodes : NewLeaf(n, "sparqlEndpoint")
NewDefaultSparqlEndpoint == \E n \in Nodes : NewLeaf(n, "defaultSparqlEndpoint")
NewRDFTerm == \E n \in Nodes : NewLeaf(n, "rdfTerm")

\* the constructors whose only producer is datasetSource
NewDatasetConsumer(n, k, ds) ==
    /\ Fresh(n)
    /\ kind' = [kind EXCEPT ![n] = k]
    /\ datasetSource' = [datasetSource EXCEPT ![n] = ds]
    /\ consumers' = [consumers EXCEPT ![ds] = addConsumer(@, n)]
    /\ UNCHANGED <<defaultGraphSource, namedGraphSources, inputDatasetSources, params,
                   bindingSources, observers>>

NewGraphSelector ==
    \E n \in Nodes, ds \in OfKinds(DatasetKinds) : NewDatasetConsumer(n, "graphSelector", ds)
NewConstructQuery ==
    \E n \in Nodes, ds \in OfKinds(DatasetKinds) : NewDatasetConsumer(n, "constructQuery", ds)
NewAllTermsFromDatasetSource ==
    \E n \in Nodes, ds \in OfKinds(DatasetKinds) : NewDatasetConsumer(n, "allTerms", ds)
NewDefaultVarAllTerms ==
    \E n \in Nodes, ds \in OfKinds(DatasetKinds) : NewDatasetConsumer(n, "defaultVarAllTerms", ds)

NewDatasetBuilder ==
    \E n \in Nodes, dg \in OfKinds(GraphKinds), ngs \in SeqsUpTo(OfKinds(GraphKinds), MaxArgs) :
        /\ Fresh(n)
        /\ kind' = [kind EXCEPT ![n] = "datasetBuilder"]
        /\ defaultGraphSource' = [defaultGraphSource EXCEPT ![n] = dg]
        /\ namedGraphSources' = [namedGraphSources EXCEPT ![n] = ngs]
        /\ consumers' = addConsumerToEach([consumers EXCEPT ![dg] = addConsumer(@, n)],
                                          ObjectValues(ngs), n)
            /\ UNCHANGED <<datasetSource, inputDatasetSources, params, bindingSources, observers>>

NewDatasetMerge ==
    \E n \in Nodes, ins \in SeqsUpTo(OfKinds(DatasetKinds), MaxArgs) :
        /\ Fresh(n)
        /\ kind' = [kind EXCEPT ![n] = "datasetMerge"]
        /\ inputDatasetSources' = [inputDatasetSources EXCEPT ![n] = ins]
        /\ consumers' = addConsumerToEach(consumers, ins, n)
            /\ UNCHANGED <<datasetSource, defaultGraphSource, namedGraphSources, params,
                       bindingSources, observers>>

NewVarFromSelectQuery ==
    \E n \in Nodes, ds \in OfKinds(DatasetKinds), ps \in SeqsUpTo(OfKinds(RDFTermKinds), MaxArgs) :
        /\ Fresh(n)
        /\ kind' = [kind EXCEPT ![n] = "varFromSelect"]
        /\ datasetSource' = [datasetSource EXCEPT ![n] = ds]
        /\ params' = [params EXCEPT ![n] = ps]
        /\ consumers' = addConsumerToEach([consumers EXCEPT ![ds] = addConsumer(@, n)],
                                          MapValues(ps), n)
            /\ UNCHANGED <<defaultGraphSource, namedGraphSources, inputDatasetSources,
                       bindingSources, observers>>

NewSelectQuerySource ==
    \E n \in Nodes, ds \in OfKinds(DatasetKinds), bs \in SeqsUpTo(OfKinds(TabularKinds), MaxArgs) :
        /\ Fresh(n)
        /\ kind' = [kind EXCEPT ![n] = "selectQuery"]
        /\ datasetSource' = [datasetSource EXCEPT ![n] = ds]
        /\ bindingSources' = [bindingSources EXCEPT ![n] = bs]
        /\ consumers' = addConsumerToEach([consumers EXCEPT ![ds] = addConsumer(@, n)], bs, n)
            /\ UNCHANGED <<defaultGraphSource, namedGraphSources, inputDatasetSources, params,
                       observers>>

\* ------------------------------------------------------------------ detache
\* the consumer lists after c.detache(), by the class of c
detache(cons, c) ==
    CASE kind[c] = "datasetBuilder" ->
            removeConsumerFromEach([cons EXCEPT ![defaultGraphSource[c]] = removeConsumer(@, c)],
                                   ObjectValues(namedGraphSources[c]), c)
      [] kind[c] = "datasetMerge" -> removeConsumerFromEach(cons, inputDatasetSources[c], c)
      [] OTHER -> [cons EXCEPT ![datasetSource[c]] = removeConsumer(@, c)]

\* the classes that define detache()
Detachable == OfKinds(DatasetConsumerKinds \cup GraphConsumerKinds)

DetacheAt(c) ==
    /\ c \in Detachable
    /\ consumers' = detache(consumers, c)
    /\ UNCHANGED <<kind, refs, observers>>

\* ------------------------------------------------------------------ direct ledger calls
ConsumerKindsOf(p) ==
    CASE kind[p] \in GraphKinds -> GraphConsumerKinds
      [] kind[p] \in DatasetKinds -> DatasetConsumerKinds
      [] kind[p] \in RDFTermKinds -> RDFTermConsumerKinds
      [] kind[p] \in TabularKinds -> TabularConsumerKinds
      [] OTHER -> {}

AddConsumerAt(p, c) ==
    /\ p \in Created /\ c \in OfKinds(ConsumerKindsOf(p))
    /\ consumers' = [consumers EXCEPT ![p] = addConsumer(@, c)]
    /\ UNCHANGED <<kind, refs, observers>>

RemoveConsumerAt(p, c) ==
    /\ p \in Created /\ c \in OfKinds(ConsumerKindsOf(p))
    /\ consumers' = [consumers EXCEPT ![p] = removeConsumer(@, c)]
    /\ UNCHANGED <<kind, refs, observers>>

\* an observer argument: a token of the caller, or the node itself
ObserverArgs(n) == Tokens \cup {n}

AddObserverAt(n, o) ==
    /\ n \in OfKinds(RDFTermKinds \cup TabularKinds) /\ o \in ObserverArgs(n)
    /\ observers' = [observers EXCEPT ![n] = addObserver(@, n, o)]
    /\ UNCHANGED <<kind, refs, consumers>>

RemoveObserverAt(n, o) ==
    /\ n \in OfKinds(RDFTermKinds \cup TabularKinds) /\ o \in ObserverArgs(n)
    /\ observers' = [observers EXCEPT ![n] = removeObserver(@, o)]
    /\ UNCHANGED <<kind, refs, consumers>>

\* ------------------------------------------------------------------ calls with their history
\* detachCalls counts the detache() calls on a node up to `most`
Detache(most) ==
    \E c \in Nodes :
        /\ DetacheAt(c)
        /\ detachCalls' = [detachCalls EXCEPT ![c] = IF @ < most THEN @ + 1 ELSE @]
        /\ UNCHANGED <<wanted, lastObserved>>

AddConsumer == \E p, c \in Nodes : AddConsumerAt(p, c) /\ UNCHANGED hist

RemoveConsumer == \E p, c \in Nodes : RemoveConsumerAt(p, c) /\ UNCHANGED hist

AddObserver == \E n \in Nodes : \E o \in ObserverArgs(n) : AddObserverAt(n, o) /\ UNCHANGED hist

RemoveObserver ==
    \E n \in Nodes : \E o \in ObserverArgs(n) : RemoveObserverAt(n, o) /\ UNCHANGED hist

\* the same two calls made by external observers with their tokens, the tokens
\* attached and not removed since kept in `wanted`
AddObserverTracked ==
    \E n \in Nodes : \E o \in Tokens :
        /\ AddObserverAt(n, o)
        /\ wanted' = [wanted EXCEPT ![n] = @ \cup {o}]
        /\ UNCHANGED <<detachCalls, lastObserved>>

RemoveObserverTracked ==
    \E n \in Nodes : \E o \in Tokens :
        /\ RemoveObserverAt(n, o)
        /\ wanted' = [wanted EXCEPT ![n] = @ \ {o}]
        /\ UNCHANGED <<detachCalls, lastObserved>>

NumCreated == Cardinality(Created)

\* ------------------------------------------------------------------ specifications
\* a constructor call while fewer than `limit` nodes exist
Construct(limit) ==
    \/ NumCreated < limit /\ NewGraphSource /\ UNCHANGED hist
    \/ NumCreated < limit /\ NewSparqlEndpoint /\ UNCHANGED hist
    \/ NumCreated < limit /\ NewDefaultSparqlEndpoint /\ UNCHANGED hist
    \/ NumCreated < limit /\ NewRDFTerm /\ UNCHANGED hist
    \/ NumCreated < limit /\ NewGraphSelector /\ UNCHANGED hist
    \/ NumCreated < limit /\ NewConstructQuery /\ UNCHANGED hist
    \/ NumCreated < limit /\ NewAllTermsFromDatasetSource /\ UNCHANGED hist
    \/ NumCreated < limit /\ NewDefaultVarAllTerms /\ UNCHANGED hist
    \/ NumCreated < limit /\ NewDatasetBuilder /\ UNCHANGED hist
    \/ NumCreated < limit /\ NewDatasetMerge /\ UNCHANGED hist
    \/ NumCreated < limit /\ NewVarFromSelectQuery /\ UNCHANGED hist
    \/ NumCreated < limit /\ NewSelectQuerySource /\ UNCHANGED hist

\* the layer as its clients use it: constructors, observers, detache
Next ==
    \/ Construct(MaxNodes)
    \/ Detache(1)
    \/ AddObserver
    \/ RemoveObserver

Spec == Init /\ [][Next]_vars

\* the same with external observers only, remembering which tokens are attached
NextObserver ==
    \/ Construct(MaxNodes)
    \/ Detache(1)
    \/ AddObserverTracked
    \/ RemoveObserverTracked

SpecObserver == Init /\ [][NextObserver]_vars

\* constructors and detache alone, telling a repeated detache() from the first
NextDetach ==
    \/ Construct(MaxNodes)
    \/ Detache(2)

SpecDetach == Init /\ [][NextDetach]_vars

\* every call of the layer, the public addConsumer / removeConsumer included
NextLedger ==
    \/ Construct(MaxLedgerNodes)
    \/ Detache(0)
    \/ AddConsumer
    \/ RemoveConsumer
    \/ AddObserver
    \/ RemoveObserver

SpecLedger == Init /\ [][NextLedger]_vars

\* graph sources and dataset builders, with the direct ledger calls
NextBuilder ==
    \/ NumCreated < HeapSize /\ NewGraphSource /\ UNCHANGED hist
    \/ NumCreated < HeapSize /\ NewDatasetBuilder /\ UNCHANGED hist
    \/ Detache(1)
    \/ AddConsumer
    \/ RemoveConsumer

SpecBuilder == Init /\ [][NextBuilder]_vars

\* endpoints, dataset merges and the tables that observe them
NextMerge ==
    \/ NumCreated < HeapSize /\ NewSparqlEndpoint /\ UNCHANGED hist
    \/ NumCreated < HeapSize /\ NewDatasetMerge /\ UNCHANGED hist
    \/ NumCreated < HeapSize /\ NewDefaultVarAllTerms /\ UNCHANGED hist
    \/ AddObserver
    \/ RemoveObserver

SpecMerge == Init /\ [][NextMerge]_vars

\* ------------------------------------------------------------------ vocabulary of the claims
\* the producers a node was given at construction (its producer-reference attributes)
Producers(c) ==
    CASE kind[c] = "datasetBuilder" -> {defaultGraphSource[c]} \cup Range(namedGraphSources[c])
      [] kind[c] = "datasetMerge" -> Range(inputDatasetSources[c])
      [] kind[c] = "varFromSelect" -> {datasetSource[c]} \cup Range(params[c])
      [] kind[c] = "selectQuery" -> {datasetSource[c]} \cup Range(bindingSources[c])
      [] kind[c] \in {"graphSelector", "constructQuery", "allTerms", "defaultVarAllTerms"} ->
            {datasetSource[c]}
      [] OTHER -> {}

\* the nodes reached from n by zero or more consumer edges
RECURSIVE ConsumerClosure(_)
ConsumerClosure(S) ==
    LET T == S \cup UNION {Range(consumers[m]) : m \in S}
    IN  IF T = S THEN S ELSE ConsumerClosure(T)

Downstream(n) == ConsumerClosure({n})

Acyclic == \A n \in Created : \A c \in Range(consumers[n]) : n \notin Downstream(c)

Newest == CHOOSE n \in Created : \A m \in Created : m <= n

\* ------------------------------------------------------------------ C1
\* C1: the step that constructs a node c of one of the seven DatasetConsumer kinds
\* (graphSelector, constructQuery, datasetMerge, varFromSelect, allTerms, selectQuery,
\* defaultVarAllTerms) ends with c exactly once in the consumer list of every
\* producer it was given, however often it references that producer.
C1_ConstructionRegistersOnce ==
    [][\A c \in Nodes :
          (kind[c] = "none" /\ kind'[c] \in DatasetConsumerKinds)
              => \A p \in Producers(c)' : Count(consumers'[p], c) = 1]_vars

\* the newest node is a selectQuery built on a table that its bindingSources name
\* twice; it is once in that table's consumers and once in its dataset's
C1_Witness ==
    /\ Created # {}
    /\ kind[Newest] = "selectQuery"
    /\ detachCalls[Newest] = 0
    /\ \E p \in Nodes : Count(bindingSources[Newest], p) = 2 /\ Count(consumers[p], Newest) = 1
    /\ Count(consumers[datasetSource[Newest]], Newest) = 1

\* ------------------------------------------------------------------ C2
\* C2: the step that constructs a datasetBuilder c ends with c exactly once in the
\* consumer list of its default graph source and of every graph source that is a
\* value of its namedGraphSources mapping.
C2_BuilderRegistersWithNamed ==
    [][\A c \in Nodes :
          (kind[c] = "none" /\ kind'[c] = "datasetBuilder")
              => \A g \in {defaultGraphSource'[c]} \cup Range(namedGraphSources'[c]) :
                    Count(consumers'[g], c) = 1]_vars

\* ------------------------------------------------------------------ C3
\* C3: a node on which detache() has been called is in the consumer list of none of
\* the producers it was constructed with (dataset source, params, bindingSources,
\* inputs, graph sources).
C3_DetachReleasesEveryProducer ==
    \A c \in Created :
        detachCalls[c] >= 1 => \A p \in Producers(c) : ~includes(consumers[p], c)

\* ------------------------------------------------------------------ C4
\* C4: the first detache() of a datasetBuilder c built from a default graph source D
\* and two named graph sources A and B (three different nodes) ends with c in none
\* of D.consumers, A.consumers, B.consumers.
C4_BuilderDetachReleasesAll ==
    [][\A c \in Nodes :
          ( /\ kind[c] = "datasetBuilder"
            /\ Len(namedGraphSources[c]) = 2
            /\ Cardinality(Producers(c)) = 3
            /\ detachCalls[c] = 0 /\ detachCalls'[c] = 1 )
              => \A g \in Producers(c) : ~includes(consumers'[g], c)]_vars

\* ------------------------------------------------------------------ C5
\* C5: no consumer occurs more than once in the consumer list of any node, in every
\* state reached by constructors, addConsumer, removeConsumer and detache calls.
C5_ConsumersUnique ==
    \A n \in Nodes : \A c \in Nodes : Count(consumers[n], c) <= 1

\* a datasetMerge whose input array names the same dataset twice is registered there
C5_Witness ==
    \E c \in OfKinds({"datasetMerge"}) : \E p \in Nodes :
        Count(inputDatasetSources[c], p) = 2 /\ Count(consumers[p], c) = 1

\* ------------------------------------------------------------------ C6
\* C6: the observer list of a Term or Tabular node holds exactly the observer
\* arguments added and not removed since, each once, and hasObserver() is true
\* exactly when there is such an argument.
C6_ObserverListHoldsTokens ==
    \A n \in Created :
        /\ Range(observers[n]) = wanted[n]
        /\ Len(observers[n]) = Cardinality(wanted[n])
        /\ hasObserver(n) <=> wanted[n] # {}

\* ------------------------------------------------------------------ C7
\* C7: along a chain of consumer edges from leaf to a different node top, each of
\* the two reports isObserved() = true exactly while some node downstream of it has
\* an observer argument that was added and not removed since.
Demanded(n) == \E m \in Downstream(n) : wanted[m] # {}

C7_ChainDemandFollowsObservers ==
    \A leaf \in Created : \A top \in Downstream(leaf) \ {leaf} :
        /\ isObserved(leaf) = (IF Demanded(leaf) THEN "true" ELSE "false")
        /\ isObserved(top) = (IF Demanded(top) THEN "true" ELSE "false")

\* ------------------------------------------------------------------ C8
\* C8: on an acyclic consumer graph isObserved() of a node returns true if some node
\* reached from it by zero or more consumer edges is a Term or Tabular node with a
\* non-empty observer list, and returns false otherwise.
C8_ObservedIffObserverDownstream ==
    Acyclic =>
        \A n \in Created :
            isObserved(n) =
                (IF \E m \in Downstream(n) : HasObservers(m) /\ Len(observers[m]) > 0
                 THEN "true" ELSE "false")

\* a Graph or Dataset node is observed only through the second of its two consumers;
\* the first has neither consumers nor observers and is not observed
C8_Witness ==
    \E n \in OfKinds(GraphKinds \cup DatasetKinds) :
        /\ Len(consumers[n]) = 2
        /\ consumers[consumers[n][1]] = << >> /\ observers[consumers[n][1]] = << >>
        /\ isObserved(consumers[n][1]) = "false"
        /\ isObserved(n) = "true"

\* ------------------------------------------------------------------ C9
SomeObservedAmong(S) == \E c \in S : isObserved(c) = "true"

TwoInputMerges == {m \in OfKinds({"datasetMerge"}) : Len(inputDatasetSources[m]) = 2}

\* C9 as claimed: a merge M of two different datasets A and B is observed iff another
\* consumer of A is observed, or another consumer of B is, or a consumer of M is.
C9_MergeObservedThroughInputs ==
    \A m \in TwoInputMerges :
        LET A == inputDatasetSources[m][1]
            B == inputDatasetSources[m][2]
        IN  A # B =>
                ( isObserved(m) = "true"
                    <=> \/ SomeObservedAmong(Range(consumers[A]) \ {m})
                        \/ SomeObservedAmong(Range(consumers[B]) \ {m})
                        \/ SomeObservedAmong(Range(consumers[m])) )

\* C9 as amended: a merge M of A and B that has not been detached is observed iff a
\* consumer of M is observed, and each input is observed iff M is observed or
\* another consumer of that input is.
C9_MergeFanIn ==
    \A m \in TwoInputMerges :
        detachCalls[m] = 0 =>
            /\ isObserved(m) = "true" <=> SomeObservedAmong(Range(consumers[m]))
            /\ \A x \in Range(inputDatasetSources[m]) :
                  isObserved(x) = "true"
                      <=> \/ isObserved(m) = "true"
                          \/ SomeObservedAmong(Range(consumers[x]) \ {m})

\* a merge of two different datasets is observed through a table built on it, and so
\* are both inputs, which have no other consumer
C9_Witness ==
    \E m \in TwoInputMerges :
        LET A == inputDatasetSources[m][1]
            B == inputDatasetSources[m][2]
        IN  /\ A # B
            /\ consumers[A] = <<m>> /\ consumers[B] = <<m>>
            /\ isObserved(m) = "true" /\ isObserved(A) = "true" /\ isObserved(B) = "true"

\* ------------------------------------------------------------------ C10
\* C10: once detache() has been called on a node, calling it again leaves every
\* consumer list as it is (detache() writes nothing else).
C10_SecondDetachIsNoOp ==
    \A c \in Detachable : detachCalls[c] >= 1 => detache(consumers, c) = consumers

\* a node was detached twice from a dataset that still has another consumer
C10_Witness ==
    \E c \in Detachable :
        /\ detachCalls[c] = 2
        /\ datasetSource[c] # Null
        /\ Len(consumers[datasetSource[c]]) >= 1

\* ------------------------------------------------------------------ C11
\* C11: on a node of any family, addConsumer(C) called twice in a row leaves the
\* consumer list, members and order, as one call leaves it; the list after the
\* call holds C once, at its old place if it was there and at the end otherwise.
C11_AddConsumerIdempotent ==
    \A p \in Created : \A c \in OfKinds(ConsumerKindsOf(p)) :
        LET once == addConsumer(consumers[p], c)
        IN  /\ addConsumer(once, c) = once
            /\ Count(once, c) = 1
            /\ includes(consumers[p], c) => once = consumers[p]
            /\ ~includes(consumers[p], c) => once = consumers[p] \o <<c>>

\* a list of two consumers whose first entry is added again: nothing changes
C11_Witness ==
    \E p \in Created : \E c \in OfKinds(ConsumerKindsOf(p)) :
        /\ Len(consumers[p]) = 2 /\ consumers[p][1] = c
        /\ addConsumer(consumers[p], c) = consumers[p]

\* ------------------------------------------------------------------ C12
\* the list without its entry number i (1-based)
DropAt(s, i) == SubSeq(s, 1, i - 1) \o SubSeq(s, i + 1, Len(s))

\* C12: on a node of any family, removeConsumer(C) leaves the consumer list as it
\* is when C is not in it, and otherwise takes out exactly the one entry C, every
\* other entry staying in its order.
C12_RemoveConsumerIdempotent ==
    \A p \in Created : \A c \in OfKinds(ConsumerKindsOf(p)) :
        LET list == consumers[p]
            after == removeConsumer(list, c)
        IN  /\ ~includes(list, c) => after = list
            /\ includes(list, c) =>
                  /\ \E i \in 1..Len(list) : list[i] = c /\ after = DropAt(list, i)
                  /\ ~includes(after, c)
            /\ removeConsumer(after, c) = after

\* a node that names p as a producer is no longer in p's consumer list, which still
\* holds another entry; removing the node again leaves that entry alone
C12_Witness ==
    \E c \in Created : \E p \in Producers(c) :
        /\ ~includes(consumers[p], c)
        /\ consumers[p] # << >>
        /\ removeConsumer(consumers[p], c) = consumers[p]

\* ------------------------------------------------------------------ C13
\* faulty variant: the query empties the observer list it has just read
IsObservedDraining(n) ==
    /\ n \in Created
    /\ lastObserved' = <<n, isObserved(n)>>
    /\ observers' = [observers EXCEPT ![n] = << >>]
    /\ UNCHANGED <<kind, refs, consumers, detachCalls, wanted>>

\* a call of n.isObserved(): it reads observers.length and consumers, writes nothing
IsObservedAt(n) ==
    /\ n \in Created
    /\ lastObserved' = <<n, isObserved(n)>>
    /\ UNCHANGED <<pvars, detachCalls, wanted>>

IsObserved == \E n \in Nodes : IsObservedAt(n)

\* any other call ends the run of consecutive isObserved() calls
Forget == lastObserved' = << >> /\ UNCHANGED <<detachCalls, wanted>>

\* constructors, observers and detache with the isObserved() queries made in between,
\* remembering the latest query
NextRead ==
    \/ IsObserved
    \/ NumCreated < MaxLedgerNodes /\ NewGraphSource /\ Forget
    \/ NumCreated < MaxLedgerNodes /\ NewSparqlEndpoint /\ Forget
    \/ NumCreated < MaxLedgerNodes /\ NewDefaultSparqlEndpoint /\ Forget
    \/ NumCreated < MaxLedgerNodes /\ NewRDFTerm /\ Forget
    \/ NumCreated < MaxLedgerNodes /\ NewGraphSelector /\ Forget
    \/ NumCreated < MaxLedgerNodes /\ NewConstructQuery /\ Forget
    \/ NumCreated < MaxLedgerNodes /\ NewAllTermsFromDatasetSource /\ Forget
    \/ NumCreated < MaxLedgerNodes /\ NewDefaultVarAllTerms /\ Forget
    \/ NumCreated < MaxLedgerNodes /\ NewDatasetBuilder /\ Forget
    \/ NumCreated < MaxLedgerNodes /\ NewDatasetMerge /\ Forget
    \/ NumCreated < MaxLedgerNodes /\ NewVarFromSelectQuery /\ Forget
    \/ NumCreated < MaxLedgerNodes /\ NewSelectQuerySource /\ Forget
    \/ \E c \in Nodes : DetacheAt(c) /\ Forget
    \/ \E n \in Nodes : \E o \in ObserverArgs(n) : AddObserverAt(n, o) /\ Forget
    \/ \E n \in Nodes : \E o \in ObserverArgs(n) : RemoveObserverAt(n, o) /\ Forget

SpecRead == Init /\ [][NextRead]_vars

C14_ConsumerGraphIsDAG ==
    \A n \in Created : \A c \in Range(consumers[n]) : n \notin Downstream(c)

\* ------------------------------------------------------------------ C15
\* n is transitively its own consumer
OnCycle(n) == \E c \in Range(consumers[n]) : n \in Downstream(c)

\* C15 as claimed: isObserved() never returns on a node that is transitively its
\* own consumer.
C15_CycleNeverReturns ==
    \A n \in Created : OnCycle(n) => isObserved(n) = "diverges"

\* C15 as amended: on a node that is transitively its own consumer isObserved()
\* never returns false; it returns true only when a node reached from it has an
\* observer, and never returns when no node reached from it has one.
C15_CycleNeverReturnsFalse ==
    \A n \in Created :
        OnCycle(n) =>
            /\ isObserved(n) # "false"
            /\ isObserved(n) = "true" =>
                  \E m \in Downstream(n) : HasObservers(m) /\ hasObserver(m)
            /\ (\A m \in Downstream(n) : observers[m] = << >>) => isObserved(n) = "diverges"

\* two nodes that are their own consumers: the query on one never returns, the
\* query on the other, which has an observer, returns true
C15_Witness ==
    \E n, m \in Created :
        /\ OnCycle(n) /\ isObserved(n) = "diverges"
        /\ OnCycle(m) /\ isObserved(m) = "true"

\* ------------------------------------------------------------------ C16
\* C16: in every state built by constructors, addObserver, removeObserver and
\* detache, isObserved() returns true or false on every node.
C16_IsObservedReturns ==
    \A n \in Created : isObserved(n) \in {"true", "false"}

\* a chain of two consumer edges: the query on its first node goes two levels deep
\* and returns true through the observer of the last node
C16_Witness ==
    \E n \in Created : \E c \in Range(consumers[n]) : \E d \in Range(consumers[c]) :
        /\ observers[n] = << >> /\ observers[c] = << >> /\ observers[d] # << >>
        /\ isObserved(n) = "true"

\* ------------------------------------------------------------------ C17
\* graph sources, the datasets built from them and the tables that observe those
NextUpstream ==
    \/ NumCreated < HeapSize /\ NewGraphSource /\ UNCHANGED hist
    \/ NumCreated < HeapSize /\ NewDatasetBuilder /\ UNCHANGED hist
    \/ NumCreated < HeapSize /\ NewDefaultVarAllTerms /\ UNCHANGED hist
    \/ Detache(1)
    \/ AddObserver
    \/ RemoveObserver

SpecUpstream == Init /\ [][NextUpstream]_vars

\* C17: when a derived node that has not been detached reports isObserved() = true,
\* so does every producer it was constructed with: dataset source, default and
\* named graph sources, inputs, params and binding sources.
C17_DemandReachesEveryProducer ==
    \A c \in Created :
        (detachCalls[c] = 0 /\ isObserved(c) = "true")
            => \A p \in Producers(c) : isObserved(p) = "true"

\* ------------------------------------------------------------------ C18
\* C18: once detache() has been called on a node c, a producer p of c reports
\* isObserved() = true only if p has an observer of its own or a consumer other
\* than c that is observed, whatever observers or observed consumers c still has.
C18_DetachedNodeAddsNoDemand ==
    \A c \in Created :
        detachCalls[c] >= 1 =>
            \A p \in Producers(c) :
                isObserved(p) = "true" =>
                    \/ HasObservers(p) /\ hasObserver(p)
                    \/ SomeObservedAmong(Range(consumers[p]) \ {c})

\* ------------------------------------------------------------------ C19
\* the list without the entries equal to c, the others in their order
Without(s, c) == SelectSeq(s, LAMBDA x : x # c)

\* C19: the first detache() of a node c takes nothing but c out of consumer lists:
\* in the list of a producer of c every other entry stays, in its order, and no c
\* is added; the list of every other node, c's own included, and every node's
\* kind, producer references and observer list stay as they are.
C19_DetachFrame ==
    [][\A c \in Nodes :
          (detachCalls[c] = 0 /\ detachCalls'[c] = 1) =>
              /\ UNCHANGED <<kind, refs, observers>>
              /\ \A p \in Nodes :
                    IF p \in Producers(c)
                    THEN /\ Without(consumers'[p], c) = Without(consumers[p], c)
                         /\ Count(consumers'[p], c) <= Count(consumers[p], c)
                    ELSE consumers'[p] = consumers[p]]_vars

\* a detached node with an observer of its own is gone from the list of a producer
\* that still holds another consumer
C19_Witness ==
    \E c \in Created :
        /\ detachCalls[c] = 1
        /\ observers[c] # << >>
        /\ \E p \in Producers(c) : ~includes(consumers[p], c) /\ consumers[p] # << >>

====
